---- MODULE Spec2Model ----
(***************************************************************************)
(* The EDDN gateway (src/eddn/Gateway.py): POST /upload/ normalises a      *)
(* possibly compressed, possibly form-encoded body, parses it as JSON,     *)
(* optionally adds an upload key, and hands the re-serialised message to a *)
(* detached greenlet that compresses it and sends it on the PUB socket.    *)
(*                                                                         *)
(* A text (str) is a sequence of lexemes: one-character strings for the    *)
(* punctuation that the parsers split on, and whole words ("data", "a",    *)
(* "%3D") where no parser looks inside.                                    *)
(***************************************************************************)
EXTENDS Integers, Sequences, FiniteSets, TLC

\* Number of upload requests a behaviour handles.
MaxRequests == 2

None == <<"None">>
Q == "\""

Digits == {"1", "2"}

(***************************************************************************)
(* zlib.  A compressed stream is a header lexeme, a deflate block          *)
(* "DEFLATE[" ... "]EOS" holding the payload, and a checksum lexeme.       *)
(***************************************************************************)
Z_DATA_ERROR_HEADER == "Error -3 while decompressing data: incorrect header check"
Z_DATA_ERROR_CHECK == "Error -3 while decompressing data: incorrect data check"
Z_DATA_ERROR_BLOCK == "Error -3 while decompressing data: invalid stored block lengths"
Z_BUF_ERROR == "Error -5 while decompressing data: incomplete or truncated stream"

ZlibErrors ==
    {Z_DATA_ERROR_HEADER, Z_DATA_ERROR_CHECK, Z_DATA_ERROR_BLOCK, Z_BUF_ERROR}

\* zlib.compress(s): zlib header, one deflate stream, adler32 trailer.
ZlibCompress(s) == <<"ZLIB", "DEFLATE[">> \o s \o <<"]EOS", "ADLER32">>

\* What a gzip client sends: gzip header, deflate stream, crc32 trailer.
GzipCompress(s) == <<"GZIP", "DEFLATE[">> \o s \o <<"]EOS", "CRC32">>

\* A compressor that emits the bare deflate stream (no header, no trailer).
RawDeflate(s) == <<"DEFLATE[">> \o s \o <<"]EOS">>

\* Inflate of the deflate stream that starts at bytes[from].
Inflate(bytes, from) ==
    LET ends == {e \in from + 1 .. Len(bytes) : bytes[e] = "]EOS"}
        end == CHOOSE e \in ends : \A f \in ends : e <= f
    IN  IF from > Len(bytes)
        THEN [ok |-> FALSE, err |-> Z_BUF_ERROR, data |-> <<>>, next |-> from]
        ELSE IF bytes[from] # "DEFLATE["
        THEN [ok |-> FALSE, err |-> Z_DATA_ERROR_BLOCK, data |-> <<>>, next |-> from]
        ELSE IF ends = {}
        THEN [ok |-> FALSE, err |-> Z_BUF_ERROR, data |-> <<>>, next |-> from]
        ELSE [ok |-> TRUE, err |-> "", data |-> SubSeq(bytes, from + 1, end - 1),
              next |-> end + 1]

\* zlib.decompress(bytes, wbits) for wbits = 15 + 32 (gzip or zlib header,
\* detected automatically, trailer checked) and wbits = -15 (raw deflate,
\* no header, no trailer; bytes after the stream are ignored).
ZlibDecompress(bytes, wbits) ==
    IF wbits < 0
    THEN LET r == Inflate(bytes, 1)
         IN  [ok |-> r.ok, err |-> r.err, data |-> r.data]
    ELSE IF bytes = <<>>
    THEN [ok |-> FALSE, err |-> Z_BUF_ERROR, data |-> <<>>]
    ELSE IF bytes[1] \notin {"ZLIB", "GZIP"}
    THEN [ok |-> FALSE, err |-> Z_DATA_ERROR_HEADER, data |-> <<>>]
    ELSE LET r == Inflate(bytes, 2)
             sum == IF bytes[1] = "ZLIB" THEN "ADLER32" ELSE "CRC32"
         IN  IF ~r.ok
             THEN [ok |-> FALSE, err |-> r.err, data |-> <<>>]
             ELSE IF r.next > Len(bytes)
             THEN [ok |-> FALSE, err |-> Z_BUF_ERROR, data |-> <<>>]
             ELSE IF bytes[r.next] # sum
             THEN [ok |-> FALSE, err |-> Z_DATA_ERROR_CHECK, data |-> <<>>]
             ELSE [ok |-> TRUE, err |-> "", data |-> r.data]

(***************************************************************************)
(* URL-encoded forms.                                                      *)
(***************************************************************************)
\* urllib.quote_plus of one lexeme: what a form client does to a value.
QuoteLexeme(c) ==
    CASE c = "&" -> "%26"
      [] c = "=" -> "%3D"
      [] c = " " -> "+"
      [] OTHER -> c

\* unquote(x.replace('+', ' ')) of one lexeme.
UnquoteLexeme(c) ==
    CASE c = "%26" -> "&"
      [] c = "%3D" -> "="
      [] c = "+" -> " "
      [] OTHER -> c

QuotePlus(s) == [i \in 1 .. Len(s) |-> QuoteLexeme(s[i])]
UnquotePlus(s) == [i \in 1 .. Len(s) |-> UnquoteLexeme(s[i])]

RECURSIVE Split(_, _)
\* s.split(sep)
Split(s, sep) ==
    LET at == {i \in 1 .. Len(s) : s[i] = sep}
        i == CHOOSE i \in at : \A k \in at : i <= k
    IN  IF at = {} THEN <<s>>
        ELSE <<SubSeq(s, 1, i - 1)>> \o Split(SubSeq(s, i + 1, Len(s)), sep)

\* name_value.split('=', 1)
SplitFirst(s, sep) ==
    LET at == {i \in 1 .. Len(s) : s[i] = sep}
        i == CHOOSE i \in at : \A k \in at : i <= k
    IN  IF at = {} THEN <<s>>
        ELSE <<SubSeq(s, 1, i - 1), SubSeq(s, i + 1, Len(s))>>

RECURSIVE ParseQsl(_, _)
\* urlparse.parse_qsl(qs, keep_blank_values): the (name, value) pairs of the
\* pieces between '&'; a piece without '=' is dropped, and so is a piece
\* with an empty value unless keep_blank_values.
ParseQsl(pieces, keep_blank_values) ==
    IF pieces = <<>> THEN <<>>
    ELSE LET nv == SplitFirst(Head(pieces), "=")
             rest == ParseQsl(Tail(pieces), keep_blank_values)
         IN  IF Len(nv) = 2 /\ (nv[2] # <<>> \/ keep_blank_values)
             THEN << <<UnquotePlus(nv[1]), UnquotePlus(nv[2])>> >> \o rest
             ELSE IF Len(nv) = 1 /\ nv[1] # <<>> /\ keep_blank_values
             THEN << <<UnquotePlus(nv[1]), <<>> >> >> \o rest
             ELSE rest

\* urlparse.parse_qs(qs): blank values dropped; as a list of pairs, the
\* dict's values being the pairs of a name in order.
ParseQs(qs) == ParseQsl(Split(qs, "&"), FALSE)

\* The values of name among pairs, in order.
ValuesOf(pairs, name) ==
    LET idx == {i \in 1 .. Len(pairs) : pairs[i][1] = name}
        F[n \in 0 .. Len(pairs)] ==
            IF n = 0 THEN <<>>
            ELSE IF n \in idx THEN Append(F[n - 1], pairs[n][2]) ELSE F[n - 1]
    IN  F[Len(pairs)]

(***************************************************************************)
(* simplejson.  A parsed value is <<tag, payload>>: <<"num", digits>>,     *)
(* <<"str", lexemes>>, <<"null", <<>>>>, <<"list", values>>,               *)
(* <<"dict", pairs>> with pairs a sequence of <<key, value>>.              *)
(***************************************************************************)
JsonError(msg, pos) ==
    [ok |-> FALSE, val |-> <<"null", <<>> >>, next |-> pos,
     err |-> msg \o ": char " \o ToString(pos - 1)]

JsonOk(val, next) == [ok |-> TRUE, val |-> val, next |-> next, err |-> ""]

RECURSIVE SkipWs(_, _)
\* WHITESPACE.match(s, i).end()
SkipWs(s, i) ==
    IF i <= Len(s) /\ s[i] = " " THEN SkipWs(s, i + 1) ELSE i

RECURSIVE ScanDigits(_, _)
ScanDigits(s, i) ==
    IF i <= Len(s) /\ s[i] \in Digits THEN ScanDigits(s, i + 1) ELSE i

\* scanstring: s[begin] is the opening quote.
ScanString(s, begin) ==
    LET ends == {e \in begin + 1 .. Len(s) : s[e] = Q}
        end == CHOOSE e \in ends : \A f \in ends : e <= f
    IN  IF ends = {}
        THEN JsonError("Unterminated string starting at", begin)
        ELSE JsonOk(<<"str", SubSeq(s, begin + 1, end - 1)>>, end + 1)

\* dict[key] = value on a sequence of pairs.
DictSet(pairs, key, value) ==
    IF \E i \in 1 .. Len(pairs) : pairs[i][1] = key
    THEN [i \in 1 .. Len(pairs) |->
            IF pairs[i][1] = key THEN <<key, value>> ELSE pairs[i]]
    ELSE Append(pairs, <<key, value>>)

RECURSIVE ScanOnce(_, _)
RECURSIVE JSONObject(_, _, _)
RECURSIVE JSONArray(_, _, _)

\* JSONObject: i is where a member's key is expected.
JSONObject(s, i, pairs) ==
    IF i > Len(s) \/ s[i] # Q
    THEN JsonError("Expecting property name enclosed in double quotes", i)
    ELSE LET k == ScanString(s, i)
             c == SkipWs(s, k.next)
             v == ScanOnce(s, SkipWs(s, c + 1))
             e == SkipWs(s, v.next)
         IN  IF ~k.ok THEN k
             ELSE IF c > Len(s) \/ s[c] # ":"
             THEN JsonError("Expecting ':' delimiter", c)
             ELSE IF ~v.ok THEN v
             ELSE IF e <= Len(s) /\ s[e] = "}"
             THEN JsonOk(<<"dict", DictSet(pairs, k.val[2], v.val)>>, e + 1)
             ELSE IF e <= Len(s) /\ s[e] = ","
             THEN JSONObject(s, SkipWs(s, e + 1), DictSet(pairs, k.val[2], v.val))
             ELSE JsonError("Expecting ',' delimiter or '}'", e)

\* JSONArray: i is where an element is expected.
JSONArray(s, i, values) ==
    LET v == ScanOnce(s, i)
        e == SkipWs(s, v.next)
    IN  IF ~v.ok THEN v
        ELSE IF e <= Len(s) /\ s[e] = "]"
        THEN JsonOk(<<"list", Append(values, v.val)>>, e + 1)
        ELSE IF e <= Len(s) /\ s[e] = ","
        THEN JSONArray(s, SkipWs(s, e + 1), Append(values, v.val))
        ELSE JsonError("Expecting ',' delimiter or ']'", e)

\* scan_once(s, i): the value that starts at s[i].
ScanOnce(s, i) ==
    IF i > Len(s) THEN JsonError("Expecting value", i)
    ELSE IF s[i] = Q THEN ScanString(s, i)
    ELSE IF s[i] = "{"
    THEN LET j == SkipWs(s, i + 1)
         IN  IF j <= Len(s) /\ s[j] = "}"
             THEN JsonOk(<<"dict", <<>> >>, j + 1)
             ELSE JSONObject(s, j, <<>>)
    ELSE IF s[i] = "["
    THEN LET j == SkipWs(s, i + 1)
         IN  IF j <= Len(s) /\ s[j] = "]"
             THEN JsonOk(<<"list", <<>> >>, j + 1)
             ELSE JSONArray(s, j, <<>>)
    ELSE IF s[i] = "null" THEN JsonOk(<<"null", <<>> >>, i + 1)
    ELSE IF s[i] \in Digits
    THEN JsonOk(<<"num", SubSeq(s, i, ScanDigits(s, i) - 1)>>, ScanDigits(s, i))
    ELSE JsonError("Expecting value", i)

\* simplejson.loads(s): one value, surrounded by whitespace only.
SimplejsonLoads(s) ==
    LET r == ScanOnce(s, SkipWs(s, 1))
        end == SkipWs(s, r.next)
    IN  IF ~r.ok THEN r
        ELSE IF end # Len(s) + 1 THEN JsonError("Extra data", end)
        ELSE r

RECURSIVE SimplejsonDumps(_)
RECURSIVE DumpItems(_, _)
\* The items of a list (isDict FALSE) or dict, joined with ', '.
DumpItems(items, isDict) ==
    IF items = <<>> THEN <<>>
    ELSE LET one == IF isDict
                    THEN <<Q>> \o Head(items)[1] \o <<Q, ":", " ">>
                         \o SimplejsonDumps(Head(items)[2])
                    ELSE SimplejsonDumps(Head(items))
         IN  one \o (IF Tail(items) = <<>> THEN <<>> ELSE <<",", " ">>)
                 \o DumpItems(Tail(items), isDict)

\* simplejson.dumps(value) with the default separators (', ', ': ').
SimplejsonDumps(value) ==
    CASE value[1] = "num" -> value[2]
      [] value[1] = "str" -> <<Q>> \o value[2] \o <<Q>>
      [] value[1] = "null" -> <<"null">>
      [] value[1] = "list" -> <<"[">> \o DumpItems(value[2], FALSE) \o <<"]">>
      [] value[1] = "dict" -> <<"{">> \o DumpItems(value[2], TRUE) \o <<"}">>

(***************************************************************************)
(* The requests.  A request is what bottle hands the handler: the          *)
(* Content-Encoding header, whether the client sent a URL-encoded form     *)
(* (its Content-Type), the body bytes, the peer address and the            *)
(* X-Forwarded-For header.                                                 *)
(***************************************************************************)
Ja == <<"{", Q, "a", Q, ":", "1", "}">>
Jeq == <<"{", Q, "a", Q, ":", Q, "=", Q, "}">>
Jamp == <<"{", Q, "a", Q, ":", Q, "&", Q, "}">>
Jlist == <<"[", "1", "]">>
Jtrunc == <<"{">>
Jempty == <<>>
Jdata == <<"{", Q, "a", Q, ":", Q, "&", "data", "=", "1", Q, "}">>

\* The texts sent uncompressed, raw and as the form field data.
Texts == {Ja, Jlist, Jtrunc, Jempty, Jdata}

\* The texts sent compressed.
CompressedTexts == {Ja, Jeq, Jamp, Jlist, Jtrunc}

FormNoData == <<"a", "=", "1">>

\* The body of a form POST with the single field data=j.
FormBody(j) == <<"data", "=">> \o QuotePlus(j)

Request(content_encoding, form, body, forwarded) ==
    [content_encoding |-> content_encoding, form |-> form, body |-> body,
     remote_addr |-> <<"10.0.0.1">>, x_forwarded_for |-> forwarded]

RawRequest(j) == Request("", FALSE, j, None)
FormRequest(j) == Request("", TRUE, FormBody(j), None)

Requests ==
    {RawRequest(j) : j \in Texts}
    \cup {FormRequest(j) : j \in Texts}
    \cup {Request("", TRUE, FormNoData, None),
          Request("", FALSE, Ja, <<"192.0.2.7">>)}
    \cup {Request("gzip", FALSE, GzipCompress(j), None) : j \in CompressedTexts}
    \cup {Request("deflate", FALSE, ZlibCompress(Ja), None),
          Request("deflate", FALSE, RawDeflate(Ja), None),
          Request("gzip", FALSE, <<"ZLIB", "DEFLATE[">> \o Ja \o <<"]EOS", "BADSUM">>, None),
          Request("gzip", FALSE, Ja, None),
          Request("gzip", TRUE, GzipCompress(FormBody(Ja)), None),
          Request("gzip", TRUE, GzipCompress(FormNoData), None)}

\* Settings.GATEWAY_IP_KEY_SALT: unset, or a salt string.
Salts == {None, <<"s4lt">>}

(***************************************************************************)
(* The handler.                                                            *)
(***************************************************************************)
\* Python truth of a str-or-None.
Truthy(x) == x # None /\ x # <<>>

\* request.body.read(): bottle's request.body rewinds the body file on
\* every access, so each read returns the whole body.
RequestBodyRead(req) == req.body

\* request.forms: bottle parses every body that is not multipart as a
\* URL-encoded form, whatever its Content-Type, and keeps blank values.
RequestForms(req) == ParseQsl(Split(req.body, "&"), TRUE)

\* FormsDict.get(name): the last value of name, or None.
FormsGet(pairs, name) ==
    LET values == ValuesOf(pairs, name)
    IN  IF values = <<>> THEN None ELSE values[Len(values)]

get_remote_address(req) ==
    IF req.x_forwarded_for # None THEN req.x_forwarded_for ELSE req.remote_addr

\* hashlib.sha1(s).hexdigest()
Sha1Hexdigest(s) == <<"sha1(">> \o s \o <<")">>

NoDataMessage ==
    "No 'data' POST key/value found. Check your POST key name for spelling, and make sure you're passing a value."

Returned(message_body) ==
    [exc |-> "", message |-> "", message_body |-> message_body]

Raised(exc, message) ==
    [exc |-> exc, message |-> message, message_body |-> <<>>]

\* The handler with the raw-deflate retry left out.
get_decompressed_message_NoRetry(req) ==
    LET first == ZlibDecompress(RequestBodyRead(req), 15 + 32)
        form_enc_parsed == ParseQs(first.data)
        data == ValuesOf(form_enc_parsed, <<"data">>)
        data_key == FormsGet(RequestForms(req), <<"data">>)
    IN  IF req.content_encoding \in {"gzip", "deflate"}
        THEN IF ~first.ok THEN Raised("zlib.error", first.err)
             ELSE IF form_enc_parsed # <<>>
             THEN IF data # <<>> THEN Returned(data[1])
                  ELSE Raised("MalformedUploadError", NoDataMessage)
             ELSE Returned(first.data)
        ELSE IF Truthy(data_key) THEN Returned(data_key)
             ELSE Returned(RequestBodyRead(req))

\* The handler with the uncompressed path ignoring the form field.
get_decompressed_message_NoFormField(req) ==
    LET first == ZlibDecompress(RequestBodyRead(req), 15 + 32)
        second == ZlibDecompress(RequestBodyRead(req), -15)
        inflated == IF first.ok THEN first ELSE second
        form_enc_parsed == ParseQs(inflated.data)
        data == ValuesOf(form_enc_parsed, <<"data">>)
    IN  IF req.content_encoding \in {"gzip", "deflate"}
        THEN IF ~inflated.ok THEN Raised("zlib.error", second.err)
             ELSE IF form_enc_parsed # <<>>
             THEN IF data # <<>> THEN Returned(data[1])
                  ELSE Raised("MalformedUploadError", NoDataMessage)
             ELSE Returned(inflated.data)
        ELSE Returned(RequestBodyRead(req))

get_decompressed_message(req) ==
    LET first == ZlibDecompress(RequestBodyRead(req), 15 + 32)
        second == ZlibDecompress(RequestBodyRead(req), -15)
        inflated == IF first.ok THEN first ELSE second
        form_enc_parsed == ParseQs(inflated.data)
        data == ValuesOf(form_enc_parsed, <<"data">>)
        data_key == FormsGet(RequestForms(req), <<"data">>)
    IN  IF req.content_encoding \in {"gzip", "deflate"}
        THEN IF ~inflated.ok THEN Raised("zlib.error", second.err)
             ELSE IF form_enc_parsed # <<>>
             THEN IF data # <<>> THEN Returned(data[1])
                  ELSE Raised("MalformedUploadError", NoDataMessage)
             ELSE Returned(inflated.data)
        ELSE IF Truthy(data_key) THEN Returned(data_key)
             ELSE Returned(RequestBodyRead(req))

\* The attributes of the objects simplejson.loads returns: the methods of
\* the built-in dict, list, unicode, int and NoneType.  The keys of a dict
\* are items, not attributes.
PyAttributes(value) ==
    CASE value[1] = "dict" -> {"get", "keys", "items", "update", "setdefault"}
      [] value[1] = "list" -> {"append", "extend", "index"}
      [] value[1] = "str" -> {"encode", "split", "join"}
      [] value[1] = "num" -> {"real", "imag"}
      [] value[1] = "null" -> {}

\* What the handler leaves behind: the response, the exception that
\* decided it, and the message handed to gevent.spawn, if any.
Outcome(status, body, exc, spawned, string_message) ==
    [status |-> status, body |-> body, exc |-> exc, spawned |-> spawned,
     string_message |-> string_message]

\* An exception no handler catches: bottle answers 500.
Uncaught(exc) == Outcome(500, "Internal Server Error", exc, FALSE, <<>>)

\* The handler spawning the publish task on the error path too.
parse_and_error_handle_SpawnOnError(data, req, ip_hash_salt) ==
    LET parsed == SimplejsonLoads(data)
    IN  IF ~parsed.ok
        THEN Outcome(400, parsed.err, "ValueError", TRUE, data)
        ELSE IF Truthy(ip_hash_salt) /\ "upload_keys" \notin PyAttributes(parsed.val)
        THEN Uncaught("AttributeError")
        ELSE Outcome(200, "OK", "", TRUE, SimplejsonDumps(parsed.val))

parse_and_error_handle(data, req, ip_hash_salt) ==
    LET parsed == SimplejsonLoads(data)
        ip_hash == Sha1Hexdigest(ip_hash_salt \o get_remote_address(req))
    IN  IF ~parsed.ok
        THEN Outcome(400, parsed.err, "ValueError", FALSE, <<>>)
        ELSE IF Truthy(ip_hash_salt) /\ "upload_keys" \notin PyAttributes(parsed.val)
        THEN \* parsed_message.upload_keys raises before the append and the spawn
             Uncaught("AttributeError")
        ELSE Outcome(200, "OK", "", TRUE, SimplejsonDumps(parsed.val))

upload(req, ip_hash_salt) ==
    LET got == get_decompressed_message(req)
    IN  IF got.exc \in {"zlib.error", "MalformedUploadError"}
        THEN Outcome(400, got.message, got.exc, FALSE, <<>>)
        ELSE parse_and_error_handle(got.message_body, req, ip_hash_salt)

(***************************************************************************)
(* The process: the handled requests with their responses, the greenlets   *)
(* spawned for push_message, and the frames sent on the PUB socket.        *)
(***************************************************************************)
VARIABLES
    salt,       \* Settings.GATEWAY_IP_KEY_SALT
    log,        \* per handled request: the request and its response
    greenlets,  \* per gevent.spawn(push_message, ...): its argument and state
    wire        \* the frames sender.send was given, in order

vars == <<salt, log, greenlets, wire>>

Init ==
    /\ salt \in Salts
    /\ log = <<>>
    /\ greenlets = <<>>
    /\ wire = <<>>

\* POST /upload/: the handler runs to its return without yielding.
Upload(req) ==
    /\ Len(log) < MaxRequests
    /\ LET out == upload(req, salt)
       IN  /\ log' = Append(log, [req |-> req, status |-> out.status,
                                  body |-> out.body, exc |-> out.exc])
           /\ greenlets' =
                IF out.spawned
                THEN Append(greenlets, [request |-> Len(log) + 1,
                                        string_message |-> out.string_message,
                                        state |-> "spawned", sends |-> 0])
                ELSE greenlets
    /\ UNCHANGED <<salt, wire>>

\* push_message sending the string as it is.
push_message_Uncompressed(g) ==
    /\ g \in DOMAIN greenlets
    /\ greenlets[g].state = "spawned"
    /\ wire' = Append(wire, greenlets[g].string_message)
    /\ greenlets' = [greenlets EXCEPT ![g].state = "done", ![g].sends = @ + 1]
    /\ UNCHANGED <<salt, log>>

\* push_message: compress, then one send that goes through.
push_message(g) ==
    /\ g \in DOMAIN greenlets
    /\ greenlets[g].state = "spawned"
    /\ wire' = Append(wire, ZlibCompress(greenlets[g].string_message))
    /\ greenlets' = [greenlets EXCEPT ![g].state = "done", ![g].sends = @ + 1]
    /\ UNCHANGED <<salt, log>>

\* A socket error surfacing in the response of the request.
push_message_error_Surfaced(g) ==
    /\ g \in DOMAIN greenlets
    /\ greenlets[g].state = "spawned"
    /\ greenlets' = [greenlets EXCEPT ![g].state = "failed"]
    /\ log' = [log EXCEPT ![greenlets[g].request].status = 500,
                          ![greenlets[g].request].body = "Internal Server Error"]
    /\ UNCHANGED <<salt, wire>>

\* push_message: sender.send raises; the greenlet dies with the exception.
push_message_error(g) ==
    /\ g \in DOMAIN greenlets
    /\ greenlets[g].state = "spawned"
    /\ greenlets' = [greenlets EXCEPT ![g].state = "failed"]
    /\ UNCHANGED <<salt, log, wire>>

\* push_message: sender.send finds the send buffer full and waits.
push_message_block(g) ==
    /\ g \in DOMAIN greenlets
    /\ greenlets[g].state = "spawned"
    /\ greenlets' = [greenlets EXCEPT ![g].state = "blocked"]
    /\ UNCHANGED <<salt, log, wire>>

\* The blocked send goes through.
push_message_resume(g) ==
    /\ g \in DOMAIN greenlets
    /\ greenlets[g].state = "blocked"
    /\ wire' = Append(wire, ZlibCompress(greenlets[g].string_message))
    /\ greenlets' = [greenlets EXCEPT ![g].state = "done", ![g].sends = @ + 1]
    /\ UNCHANGED <<salt, log>>

Next ==
    \/ \E req \in Requests : Upload(req)
    \/ \E g \in DOMAIN greenlets : push_message(g)
    \/ \E g \in DOMAIN greenlets : push_message_error(g)
    \/ \E g \in DOMAIN greenlets : push_message_block(g)
    \/ \E g \in DOMAIN greenlets : push_message_resume(g)

Spec == Init /\ [][Next]_vars

(***************************************************************************)
(* The claims.                                                             *)
(***************************************************************************)
Compressed(req) == req.content_encoding \in {"gzip", "deflate"}

GreenletsOf(i) == {g \in DOMAIN greenlets : greenlets[g].request = i}

Accepted(i) == log[i].status = 200 /\ log[i].body = "OK"

\* The body of a request after decompression (directly, if not compressed).
DecodedOk(req) ==
    Compressed(req) =>
        ZlibDecompress(req.body, 15 + 32).ok \/ ZlibDecompress(req.body, -15).ok

Decoded(req) ==
    IF ~Compressed(req) THEN req.body
    ELSE IF ZlibDecompress(req.body, 15 + 32).ok
    THEN ZlibDecompress(req.body, 15 + 32).data
    ELSE ZlibDecompress(req.body, -15).data

\* A decoded body that is a form without a data field; on the uncompressed
\* path the request is a form by its Content-Type as well.
FormWithoutData(req) ==
    /\ DecodedOk(req)
    /\ Compressed(req) \/ req.form
    /\ ParseQs(Decoded(req)) # <<>>
    /\ ValuesOf(ParseQsl(Split(Decoded(req), "&"), TRUE), <<"data">>) = <<>>

\* The canonical payload of a request that has one.
HasPayload(req) == get_decompressed_message(req).exc = ""
Payload(req) == get_decompressed_message(req).message_body

\* The message with {name: "EMDR", key: ip_hash} appended to upload_keys.
UploadKey(ip_hash) ==
    <<"dict", << << <<"name">>, <<"str", <<"EMDR">> >> >>,
                 << <<"key">>, <<"str", ip_hash>> >> >> >>

WithUploadKey(value, ip_hash) ==
    LET at == {n \in 1 .. Len(value[2]) : value[2][n][1] = <<"upload_keys">>}
        old == IF at = {} THEN <<>> ELSE value[2][CHOOSE n \in at : TRUE][2][2]
    IN  <<"dict", DictSet(value[2], <<"upload_keys">>,
                          <<"list", Append(old, UploadKey(ip_hash))>>)>>

\* C1: every request whose decoded body is a form without a data field is
\* answered 400 with the "missing data key" message and publishes nothing,
\* on the compressed and on the uncompressed path.
C1_MissingDataKeyOnBothPaths ==
    \A i \in DOMAIN log :
        FormWithoutData(log[i].req) =>
            /\ log[i].status = 400
            /\ log[i].body = NoDataMessage
            /\ GreenletsOf(i) = {}

\* C2: every gzip/deflate request whose body is a valid compression of a
\* valid JSON document is answered 200 "OK" and spawns exactly one publish
\* of that document (with the upload key added if a salt is configured),
\* whatever characters the document contains.
C2_CompressedJsonAccepted ==
    \A i \in DOMAIN log :
        LET req == log[i].req
            doc == SimplejsonLoads(Decoded(req))
            want == IF Truthy(salt) /\ doc.val[1] = "dict"
                    THEN WithUploadKey(doc.val,
                             Sha1Hexdigest(salt \o get_remote_address(req)))
                    ELSE doc.val
        IN  Compressed(req) /\ ~req.form /\ DecodedOk(req) /\ doc.ok =>
                /\ Accepted(i)
                /\ Cardinality(GreenletsOf(i)) = 1
                /\ \A g \in GreenletsOf(i) :
                       SimplejsonLoads(greenlets[g].string_message).val = want

C4_DecompressionFallback ==
    \A i \in DOMAIN log :
        LET req == log[i].req
            auto == ZlibDecompress(req.body, 15 + 32)
            raw == ZlibDecompress(req.body, -15)
        IN  Compressed(req) =>
                IF auto.ok \/ raw.ok
                THEN /\ log[i].exc # "zlib.error"
                     /\ log[i].body \notin ZlibErrors
                     /\ (~Truthy(salt) /\ (IF auto.ok THEN auto.data ELSE raw.data) = Ja
                            => Accepted(i))
                ELSE /\ log[i].status = 400
                     /\ log[i].exc = "zlib.error"
                     /\ log[i].body = raw.err
                     /\ GreenletsOf(i) = {}

C4_Witness ==
    \E i, k \in DOMAIN log :
        /\ i < k
        /\ Compressed(log[i].req)
        /\ ~ZlibDecompress(log[i].req.body, 15 + 32).ok
        /\ ~ZlibDecompress(log[i].req.body, -15).ok
        /\ log[i].status = 400
        /\ log[k].req.body = RawDeflate(Ja)
        /\ Compressed(log[k].req)
        /\ Accepted(k)

\* C5: with a salt configured, a payload that parses to a mapping is
\* answered 200 "OK" and published with one {name: "EMDR", key: hash(salt +
\* remote address)} entry appended to upload_keys; without a salt the
\* parsed message is published unchanged.
C5_UploadKeyAppended ==
    \A i \in DOMAIN log :
        LET req == log[i].req
            doc == SimplejsonLoads(Payload(req))
            want == IF Truthy(salt)
                    THEN WithUploadKey(doc.val,
                             Sha1Hexdigest(salt \o get_remote_address(req)))
                    ELSE doc.val
        IN  HasPayload(req) /\ doc.ok /\ doc.val[1] = "dict" =>
                /\ Accepted(i)
                /\ \E g \in GreenletsOf(i) :
                       greenlets[g].string_message = SimplejsonDumps(want)

\* C6: with a salt configured, a payload that parses to a JSON value that
\* is not a mapping is answered 400 with an error text and nothing is
\* published.
C6_NonMappingRejected ==
    \A i \in DOMAIN log :
        LET req == log[i].req
            doc == SimplejsonLoads(Payload(req))
        IN  Truthy(salt) /\ HasPayload(req) /\ doc.ok /\ doc.val[1] # "dict" =>
                /\ log[i].status = 400
                /\ log[i].body # "OK"
                /\ GreenletsOf(i) = {}

\* C7: the response of a request never changes once given, whatever its
\* publish task does later, and a 200 "OK" is given with the publish task
\* only spawned: no frame has been sent for it when the handler returns.
C7_ResponseIndependentOfPublish ==
    [][/\ \A i \in DOMAIN log : i \in DOMAIN log' /\ log'[i] = log[i]
       /\ Len(log') > Len(log) /\ log'[Len(log')].status = 200 =>
            /\ wire' = wire
            /\ \E g \in DOMAIN greenlets' :
                   /\ greenlets'[g].request = Len(log')
                   /\ greenlets'[g].state = "spawned"]_vars

C7_Witness ==
    \E g, h \in DOMAIN greenlets :
        /\ greenlets[g].state = "blocked"
        /\ greenlets[h].state = "failed"
        /\ greenlets[g].request < greenlets[h].request
        /\ Accepted(greenlets[g].request)
        /\ Accepted(greenlets[h].request)

\* C8: a payload that does not parse as JSON is answered 400 with the
\* parser's message and nothing is published, and a valid upload that
\* follows such requests is answered 200 "OK" and handed to a publish task.
C8_ParseErrorThenStillServing ==
    \A k \in DOMAIN log :
        LET req == log[k].req
            doc == SimplejsonLoads(Payload(req))
        IN  HasPayload(req) =>
                IF ~doc.ok
                THEN /\ log[k].status = 400
                     /\ log[k].body = doc.err
                     /\ GreenletsOf(k) = {}
                ELSE (/\ doc.val[1] = "dict"
                      /\ \E i \in 1 .. k - 1 :
                            /\ HasPayload(log[i].req)
                            /\ ~SimplejsonLoads(Payload(log[i].req)).ok)
                        => Accepted(k) /\ GreenletsOf(k) # {}

\* C9: every frame on the publish socket is the whole zlib compression of
\* the serialisation of one accepted message: never a mix of two messages
\* and never uncompressed.
C9_FramesWholeAndCompressed ==
    \A f \in DOMAIN wire :
        LET inflated == ZlibDecompress(wire[f], 15 + 32)
        IN  /\ inflated.ok
            /\ \E i \in DOMAIN log :
                   /\ Accepted(i)
                   /\ HasPayload(log[i].req)
                   /\ SimplejsonLoads(Payload(log[i].req)).ok
                   /\ inflated.data =
                        SimplejsonDumps(SimplejsonLoads(Payload(log[i].req)).val)

C9_Witness ==
    /\ Len(wire) = 2
    /\ Len(greenlets) = 2
    /\ greenlets[1].string_message # greenlets[2].string_message
    /\ wire[1] = ZlibCompress(greenlets[2].string_message)
    /\ wire[2] = ZlibCompress(greenlets[1].string_message)

\* C10: a request has a publish task exactly when it was answered 200 "OK",
\* and then exactly one; a task sends at most once, so the frames sent
\* never outnumber the 200 responses.
C10_SpawnIffAccepted ==
    /\ \A i \in DOMAIN log :
           Cardinality(GreenletsOf(i)) = IF log[i].status = 200 THEN 1 ELSE 0
    /\ \A g \in DOMAIN greenlets :
           /\ greenlets[g].sends <= 1
           /\ greenlets[g].request \in DOMAIN log
    /\ Len(wire) <= Cardinality({i \in DOMAIN log : log[i].status = 200})
    /\ Len(wire) = Cardinality({g \in DOMAIN greenlets : greenlets[g].sends = 1})

C10_Witness ==
    \E i, k \in DOMAIN log :
        /\ log[i].status = 400 /\ GreenletsOf(i) = {}
        /\ log[k].status = 200
        /\ \E g \in GreenletsOf(k) : greenlets[g].state = "failed"
        /\ wire = <<>>
====
